---- MODULE Spec2Model ----
(***************************************************************************)
(* Revocation registry entries of the VDR: the accumulator value, the      *)
(* entry's three validations (local, against the ledger's previous         *)
(* accumulator, against a status list), and the JSON / contract-parameter  *)
(* codec.                                                                   *)
(*                                                                         *)
(* A Rust String is a sequence of one-character strings, Option<T> is a    *)
(* sequence of length at most one (None == <<>>, Some(x) == <<x>>), and a  *)
(* VdrResult is a record [tag, val] with tag "Ok" or "Err".                *)
(***************************************************************************)
EXTENDS Integers, Sequences, FiniteSets, TLC

VARIABLES
    op,                      \* the operation called last
    acc,                     \* Accumulator::validate: self
    entry,                   \* the RevocationRegistryEntry the call is on (self)
    prev_accum_from_ledger,  \* validate_with_ledger: its argument
    status_list,             \* validate_with_status_list: its argument
    result,                  \* the VdrResult the call returned
    checks,                  \* the accumulator fields validate() checked, in order
    ledger,                  \* the registry's current accumulator on the ledger
    accepted,                \* the entries the registry accepted, oldest first
    text,                    \* the JSON text / bytes a codec call produced or read
    decoded,                 \* the VdrResult of the decoding call
    log,                     \* the ContractEvent the event decoder is called on
    record                   \* the export record a binding entry point is called on

vars == <<op, acc, entry, prev_accum_from_ledger, status_list, result, checks,
          ledger, accepted, text, decoded, log, record>>

----------------------------------------------------------------------------
(* Bounds and input sets *)

\* Longest generated string.
MaxStrLen == 1

\* Characters of the generated strings: a plain one and the two JSON escapes.
Alphabet == {"a", "\"", "\\"}

RECURSIVE StringsUpTo(_)
StringsUpTo(n) ==
    IF n = 0 THEN {<<>>}
    ELSE LET shorter == StringsUpTo(n - 1)
         IN  shorter \cup {Append(s, c) : s \in shorter, c \in Alphabet}

EmptyString == <<>>
Str123 == <<"1", "2", "3">>
LocalPrev == <<"l", "o", "c", "a", "l", "P", "r", "e", "v">>
LedgerPrev == <<"l", "e", "d", "g", "e", "r", "P", "r", "e", "v">>

\* The raw strings accumulators are built from: the generated ones and the
\* values of the repository's tests.
RawStrings == StringsUpTo(MaxStrLen) \cup {Str123, LocalPrev, LedgerPrev}

Did123 == <<"d", "i", "d", ":", "e", "t", "h", "r", ":", "0", "x", "1", "2", "3">>
Did456 == <<"d", "i", "d", ":", "e", "t", "h", "r", ":", "0", "x", "4", "5", "6">>
Dids == {Did123, Did456}

RevRegDef == <<"r", "e", "v", "_", "r", "e", "g", "_", "d", "e", "f">>
RevRegDefOther == <<"r", "2">>
RevRegDefIds == {RevRegDef, RevRegDefOther}

----------------------------------------------------------------------------
(* Option and VdrResult *)

None == <<>>
Some(x) == <<x>>
IsSome(o) == Len(o) = 1
IsNone(o) == Len(o) = 0
Unwrap(o) == o[1]
Option(S) == {None} \cup {Some(x) : x \in S}

Unit == "()"
Ok(v) == [tag |-> "Ok", val |-> v]
Err(e) == [tag |-> "Err", val |-> e]
IsOk(r) == r.tag = "Ok"
IsErr(r) == r.tag = "Err"

\* VdrError::InvalidRevocationRegistryEntry(format!(fmt, args...))
InvalidRevocationRegistryEntry(fmt, args) ==
    [variant |-> "InvalidRevocationRegistryEntry", fmt |-> fmt, args |-> args]

\* The values a formatted message interpolates.
MessageMentions(e, s) == \E i \in 1..Len(e.args) : e.args[i] = s

----------------------------------------------------------------------------
(* Accumulator *)

\* pub struct Accumulator(String)
Accumulator_from(s) == [inner |-> s]
as_ref(a) == a.inner
Accumulators == {Accumulator_from(s) : s \in RawStrings}

\* Faulty variant: the is_empty test left out.
Accumulator_validate_skips_check(self) == Ok(Unit)

Accumulator_validate(self) ==
    IF Len(self.inner) = 0
    THEN Err(InvalidRevocationRegistryEntry("Incorrect Accumulator: {}", <<self.inner>>))
    ELSE Ok(Unit)

----------------------------------------------------------------------------
(* RevocationRegistryEntry *)

RevocationRegistryEntryData_new(current_accumulator, prev_accumulator, issued, revoked) ==
    [current_accumulator |-> current_accumulator,
     prev_accumulator |-> prev_accumulator,
     issued |-> issued,
     revoked |-> revoked]

RevocationRegistryEntry_new(rev_reg_def_id, issuer_id, current_accumulator, prev_accumulator, issued, revoked) ==
    [rev_reg_def_id |-> rev_reg_def_id,
     issuer_id |-> issuer_id,
     rev_reg_entry_data |->
        RevocationRegistryEntryData_new(current_accumulator, prev_accumulator,
                                        issued, revoked)]

\* Faulty variant: prev_accumulator validated before current_accumulator.
validate_steps_prev_first(self) ==
    LET d == self.rev_reg_entry_data
        prev == IF IsSome(d.prev_accumulator)
                THEN <<[field |-> "prev_accumulator",
                        res |-> Accumulator_validate(Unwrap(d.prev_accumulator))]>>
                ELSE <<>>
    IN  IF prev # <<>> /\ IsErr(prev[1].res)
        THEN prev
        ELSE prev \o <<[field |-> "current_accumulator",
                        res |-> Accumulator_validate(d.current_accumulator)]>>

\* The accumulator validations validate() runs, in program order; the ?
\* operator returns at the first that fails.
validate_steps(self) ==
    LET d == self.rev_reg_entry_data
        first == [field |-> "current_accumulator",
                  res |-> Accumulator_validate(d.current_accumulator)]
    IN  IF IsErr(first.res)
        THEN <<first>>
        ELSE IF IsSome(d.prev_accumulator)
             THEN <<first, [field |-> "prev_accumulator",
                            res |-> Accumulator_validate(Unwrap(d.prev_accumulator))]>>
             ELSE <<first>>

validate(self) ==
    LET steps == validate_steps(self)
        last == steps[Len(steps)]
    IN  IF IsErr(last.res) THEN last.res ELSE Ok(Unit)

\* Faulty variant: only the comparison of two present values is kept.
validate_with_ledger_accepts_unknown_prev(self, ledger_prev) ==
    LET local == self.rev_reg_entry_data.prev_accumulator
    IN  IF IsSome(local) /\ IsSome(ledger_prev)
           /\ as_ref(Unwrap(local)) # as_ref(Unwrap(ledger_prev))
        THEN Err(InvalidRevocationRegistryEntry(
                 "prev_accum mismatch: expected {}, found {}",
                 <<as_ref(Unwrap(ledger_prev)), as_ref(Unwrap(local))>>))
        ELSE Ok(Unit)

\* Faulty variant: two present values are not compared.
validate_with_ledger_no_mismatch_check(self, ledger_prev) ==
    LET local == self.rev_reg_entry_data.prev_accumulator
    IN  CASE IsSome(local) /\ IsSome(ledger_prev) -> Ok(Unit)
          [] IsNone(local) /\ IsSome(ledger_prev) ->
                Err(InvalidRevocationRegistryEntry(
                    "prev_accum not provided locally, but exists on the ledger", <<>>))
          [] IsSome(local) /\ IsNone(ledger_prev) ->
                Err(InvalidRevocationRegistryEntry(
                    "prev_accum provided locally, but does not exist on the ledger", <<>>))
          [] IsNone(local) /\ IsNone(ledger_prev) -> Ok(Unit)

\* Faulty variant: the messages of the two one-sided cases exchanged.
validate_with_ledger_messages_exchanged(self, ledger_prev) ==
    LET local == self.rev_reg_entry_data.prev_accumulator
    IN  CASE IsSome(local) /\ IsSome(ledger_prev) ->
                IF as_ref(Unwrap(local)) # as_ref(Unwrap(ledger_prev))
                THEN Err(InvalidRevocationRegistryEntry(
                         "prev_accum mismatch: expected {}, found {}",
                         <<as_ref(Unwrap(ledger_prev)), as_ref(Unwrap(local))>>))
                ELSE Ok(Unit)
          [] IsNone(local) /\ IsSome(ledger_prev) ->
                Err(InvalidRevocationRegistryEntry(
                    "prev_accum provided locally, but does not exist on the ledger", <<>>))
          [] IsSome(local) /\ IsNone(ledger_prev) ->
                Err(InvalidRevocationRegistryEntry(
                    "prev_accum not provided locally, but exists on the ledger", <<>>))
          [] IsNone(local) /\ IsNone(ledger_prev) -> Ok(Unit)

validate_with_ledger(self, ledger_prev) ==
    LET local == self.rev_reg_entry_data.prev_accumulator
    IN  CASE IsSome(local) /\ IsSome(ledger_prev) ->
                IF as_ref(Unwrap(local)) # as_ref(Unwrap(ledger_prev))
                THEN Err(InvalidRevocationRegistryEntry(
                         "prev_accum mismatch: expected {}, found {}",
                         <<as_ref(Unwrap(ledger_prev)), as_ref(Unwrap(local))>>))
                ELSE Ok(Unit)
          [] IsNone(local) /\ IsSome(ledger_prev) ->
                Err(InvalidRevocationRegistryEntry(
                    "prev_accum not provided locally, but exists on the ledger", <<>>))
          [] IsSome(local) /\ IsNone(ledger_prev) ->
                Err(InvalidRevocationRegistryEntry(
                    "prev_accum provided locally, but does not exist on the ledger", <<>>))
          [] IsNone(local) /\ IsNone(ledger_prev) -> Ok(Unit)

----------------------------------------------------------------------------
(* RevocationStatusList: the ledger's snapshot of a registry *)

RevocationStatusList_new(rev_reg_def_id, issuer_id, current_accumulator, revocation_list, timestamp) ==
    [rev_reg_def_id |-> rev_reg_def_id,
     issuer_id |-> issuer_id,
     current_accumulator |-> current_accumulator,
     revocation_list |-> revocation_list,
     timestamp |-> timestamp]

\* The ledger's previous accumulator a status list stands for.
\* Faulty variant: an empty current_accumulator taken as a present value.
ledger_accum_keeps_empty(status_list_arg) ==
    IF IsSome(status_list_arg)
    THEN Some(Accumulator_from(Unwrap(status_list_arg).current_accumulator))
    ELSE None

ledger_accum(status_list_arg) ==
    IF IsSome(status_list_arg)
    THEN LET s == Unwrap(status_list_arg).current_accumulator
         IN  IF Len(s) = 0 THEN None ELSE Some(Accumulator_from(s))
    ELSE None

issuer_mismatch(self, sl) ==
    Err(InvalidRevocationRegistryEntry(
        "issuer mismatch: entry issuer {} != status list issuer {}",
        <<self.issuer_id, sl.issuer_id>>))

\* Faulty variant: step 2, the issuer check, left out.
validate_with_status_list_no_issuer_check(self, status_list_arg) ==
    IF IsErr(validate(self)) THEN validate(self)
    ELSE validate_with_ledger(self, ledger_accum(status_list_arg))

\* Faulty variant: without a status list only the local validation runs.
validate_with_status_list_local_only(self, status_list_arg) ==
    IF IsErr(validate(self)) THEN validate(self)
    ELSE IF IsNone(status_list_arg) THEN Ok(Unit)
    ELSE IF self.issuer_id # Unwrap(status_list_arg).issuer_id
         THEN issuer_mismatch(self, Unwrap(status_list_arg))
    ELSE validate_with_ledger(self, ledger_accum(status_list_arg))

\* Faulty variant: the issuer check made before the local validation.
validate_with_status_list_issuer_first(self, status_list_arg) ==
    IF IsSome(status_list_arg) /\ self.issuer_id # Unwrap(status_list_arg).issuer_id
    THEN issuer_mismatch(self, Unwrap(status_list_arg))
    ELSE IF IsErr(validate(self)) THEN validate(self)
    ELSE validate_with_ledger(self, ledger_accum(status_list_arg))

\* Faulty variant: a status list of another registry definition refused.
validate_with_status_list_same_registry(self, status_list_arg) ==
    IF IsErr(validate(self)) THEN validate(self)
    ELSE IF IsSome(status_list_arg)
            /\ self.issuer_id # Unwrap(status_list_arg).issuer_id
         THEN issuer_mismatch(self, Unwrap(status_list_arg))
    ELSE IF IsSome(status_list_arg)
            /\ self.rev_reg_def_id # Unwrap(status_list_arg).rev_reg_def_id
         THEN Err(InvalidRevocationRegistryEntry(
                  "registry mismatch: entry registry {} != status list registry {}",
                  <<self.rev_reg_def_id, Unwrap(status_list_arg).rev_reg_def_id>>))
    ELSE validate_with_ledger(self, ledger_accum(status_list_arg))

validate_with_status_list(self, status_list_arg) ==
    IF IsErr(validate(self)) THEN validate(self)
    ELSE IF IsSome(status_list_arg)
            /\ self.issuer_id # Unwrap(status_list_arg).issuer_id
         THEN issuer_mismatch(self, Unwrap(status_list_arg))
    ELSE validate_with_ledger(self, ledger_accum(status_list_arg))

----------------------------------------------------------------------------
(* The calls of the validation interface. The operations are pure: a        *)
(* behaviour is one call on freshly chosen arguments.                       *)

NoArg == "-"
NoResult == [tag |-> "-", val |-> "-"]

ValidationEntries ==
    {RevocationRegistryEntry_new(r, i, c, p, None, None) :
        r \in RevRegDefIds, i \in Dids, c \in Accumulators, p \in Option(Accumulators)}

StatusLists ==
    {RevocationStatusList_new(r, i, s, <<0, 0>>, 0) :
        r \in RevRegDefIds, i \in Dids, s \in RawStrings}

StepFields(steps) == [k \in 1..Len(steps) |-> steps[k].field]

Init ==
    /\ op = "new"
    /\ acc = NoArg
    /\ entry = RevocationRegistryEntry_new(RevRegDef, Did123, Accumulator_from(Str123), None, None, None)
    /\ prev_accum_from_ledger = NoArg
    /\ status_list = NoArg
    /\ result = NoResult
    /\ checks = <<>>
    /\ ledger = EmptyString
    /\ accepted = <<>>
    /\ text = NoArg
    /\ decoded = NoResult
    /\ log = NoArg
    /\ record = NoArg

CallAccumulatorValidate ==
    /\ op = "new"
    /\ \E s \in RawStrings :
        /\ op' = "Accumulator::validate"
        /\ acc' = Accumulator_from(s)
        /\ result' = Accumulator_validate(acc')
        /\ checks' = <<>>
        /\ prev_accum_from_ledger' = NoArg
        /\ status_list' = NoArg
        /\ UNCHANGED <<entry, ledger, accepted, text, decoded, log, record>>

CallValidate ==
    /\ op = "new"
    /\ \E e \in ValidationEntries :
        /\ op' = "validate"
        /\ entry' = e
        /\ result' = validate(e)
        /\ checks' = StepFields(validate_steps(e))
        /\ acc' = NoArg
        /\ prev_accum_from_ledger' = NoArg
        /\ status_list' = NoArg
        /\ UNCHANGED <<ledger, accepted, text, decoded, log, record>>

CallValidateWithLedger ==
    /\ op = "new"
    /\ \E e \in ValidationEntries, l \in Option(Accumulators) :
        /\ op' = "validate_with_ledger"
        /\ entry' = e
        /\ prev_accum_from_ledger' = l
        /\ result' = validate_with_ledger(e, l)
        /\ checks' = <<>>
        /\ acc' = NoArg
        /\ status_list' = NoArg
        /\ UNCHANGED <<ledger, accepted, text, decoded, log, record>>

CallValidateWithStatusList ==
    /\ op = "new"
    /\ \E e \in ValidationEntries, sl \in Option(StatusLists) :
        /\ op' = "validate_with_status_list"
        /\ entry' = e
        /\ status_list' = sl
        /\ result' = validate_with_status_list(e, sl)
        /\ checks' = StepFields(validate_steps(e))
        /\ acc' = NoArg
        /\ prev_accum_from_ledger' = NoArg
        /\ UNCHANGED <<ledger, accepted, text, decoded, log, record>>

Next ==
    \/ CallAccumulatorValidate
    \/ CallValidate
    \/ CallValidateWithLedger
    \/ CallValidateWithStatusList

Spec == Init /\ [][Next]_vars

----------------------------------------------------------------------------
(* One registry on the ledger: an entry is accepted when it validates       *)
(* against the status list of the registry's current state.                 *)

\* Longest chain of accepted entries.
MaxChain == 4

RegistryIssuer == Did123
ChainStrings == {EmptyString, Str123, LocalPrev, LedgerPrev}
ChainAccumulators == {Accumulator_from(s) : s \in ChainStrings}
ChainEntries ==
    {RevocationRegistryEntry_new(RevRegDef, i, c, p, None, None) :
        i \in Dids, c \in ChainAccumulators, p \in Option(ChainAccumulators)}

\* The status list the ledger resolves for the registry.
ResolvedStatusList ==
    RevocationStatusList_new(RevRegDef, RegistryIssuer, ledger, <<0, 0>>, 0)

Submit ==
    /\ Len(accepted) < MaxChain
    /\ \E e \in ChainEntries :
        IF IsOk(validate_with_status_list(e, Some(ResolvedStatusList)))
        THEN /\ op' = "accepted"
             /\ accepted' = Append(accepted, e)
             /\ ledger' = as_ref(e.rev_reg_entry_data.current_accumulator)
             /\ UNCHANGED <<acc, entry, prev_accum_from_ledger, status_list,
                            result, checks, text, decoded, log, record>>
        ELSE /\ op' = "rejected"
             /\ UNCHANGED <<acc, entry, prev_accum_from_ledger, status_list,
                            result, checks, ledger, accepted, text, decoded, log, record>>

ChainNext == Submit

ChainSpec == Init /\ [][ChainNext]_vars

----------------------------------------------------------------------------
(* validate_with_status_list on entries and status lists that vary in every *)
(* field.                                                                   *)

IssuedLists == {None, Some(<<0>>)}
RevokedLists == {None, Some(<<7>>)}
RevocationLists == {<<0, 0>>, <<1, 0>>}
Timestamps == {0, 1700000000}

FieldEntries ==
    {RevocationRegistryEntry_new(r, i, c, p, issued, revoked) :
        r \in RevRegDefIds, i \in Dids,
        c \in ChainAccumulators, p \in Option(ChainAccumulators),
        issued \in IssuedLists, revoked \in RevokedLists}

FieldStatusLists ==
    {RevocationStatusList_new(r, i, s, l, t) :
        r \in RevRegDefIds, i \in Dids, s \in ChainStrings,
        l \in RevocationLists, t \in Timestamps}

CallValidateWithStatusListOnFields ==
    /\ op = "new"
    /\ \E e \in FieldEntries, sl \in Option(FieldStatusLists) :
        /\ op' = "validate_with_status_list"
        /\ entry' = e
        /\ status_list' = sl
        /\ result' = validate_with_status_list(e, sl)
        /\ checks' = StepFields(validate_steps(e))
        /\ acc' = NoArg
        /\ prev_accum_from_ledger' = NoArg
        /\ UNCHANGED <<ledger, accepted, text, decoded, log, record>>

FieldsNext == CallValidateWithStatusListOnFields

FieldsSpec == Init /\ [][FieldsNext]_vars

----------------------------------------------------------------------------
(* Characters, bytes and numbers *)

\* The characters 0x20..0x7E in the order of their UTF-8 bytes (0x60, which a
\* TLA+ string cannot hold, by name).
Ascii == <<" ", "!", "\"", "#", "$", "%", "&", "'", "(", ")", "*", "+", ",", "-", ".", "/", "0", "1", "2", "3", "4", "5", "6", "7", "8", "9", ":", ";", "<", "=", ">", "?", "@", "A", "B", "C", "D", "E", "F", "G", "H", "I", "J", "K", "L", "M", "N", "O", "P", "Q", "R", "S", "T", "U", "V", "W", "X", "Y", "Z", "[", "\\", "]", "^", "_", "grave", "a", "b", "c", "d", "e", "f", "g", "h", "i", "j", "k", "l", "m", "n", "o", "p", "q", "r", "s", "t", "u", "v", "w", "x", "y", "z", "{", "|", "}", "~">>
Lower == <<"a", "b", "c", "d", "e", "f", "g", "h", "i", "j", "k", "l", "m", "n", "o", "p", "q", "r", "s", "t", "u", "v", "w", "x", "y", "z">>
Upper == <<"A", "B", "C", "D", "E", "F", "G", "H", "I", "J", "K", "L", "M", "N", "O", "P", "Q", "R", "S", "T", "U", "V", "W", "X", "Y", "Z">>
Digits == <<"0", "1", "2", "3", "4", "5", "6", "7", "8", "9">>

IndexOf(table, c) ==
    IF \E k \in 1..Len(table) : table[k] = c
    THEN CHOOSE k \in 1..Len(table) : table[k] = c
    ELSE 0

\* str::as_bytes / str::from_utf8 on these characters
ByteOf(c) == IndexOf(Ascii, c) + 31
IsAsciiByte(b) == b - 31 \in 1..Len(Ascii)
CharOf(b) == Ascii[b - 31]
as_bytes(s) == [k \in 1..Len(s) |-> ByteOf(s[k])]
from_utf8(bytes) == [k \in 1..Len(bytes) |-> CharOf(bytes[k])]

to_ascii_uppercase(c) == IF IndexOf(Lower, c) > 0 THEN Upper[IndexOf(Lower, c)] ELSE c
to_ascii_lowercase(c) == IF IndexOf(Upper, c) > 0 THEN Lower[IndexOf(Upper, c)] ELSE c

IsDigit(c) == IndexOf(Digits, c) > 0
DigitValue(c) == IndexOf(Digits, c) - 1

\* u32::MAX in decimal
U32MaxDigits == <<"4", "2", "9", "4", "9", "6", "7", "2", "9", "5">>

RECURSIVE LexLeq(_, _)
LexLeq(a, b) ==
    IF a = <<>> THEN TRUE
    ELSE IF DigitValue(Head(a)) # DigitValue(Head(b))
         THEN DigitValue(Head(a)) < DigitValue(Head(b))
         ELSE LexLeq(Tail(a), Tail(b))

\* a decimal numeral without leading zeros fits u32
FitsU32(digits) ==
    \/ Len(digits) < Len(U32MaxDigits)
    \/ Len(digits) = Len(U32MaxDigits) /\ LexLeq(digits, U32MaxDigits)

RECURSIVE NumberOf(_)
NumberOf(digits) ==
    IF digits = <<>> THEN 0
    ELSE 10 * NumberOf(SubSeq(digits, 1, Len(digits) - 1)) + DigitValue(digits[Len(digits)])

\* the decimal numeral of a u32 (itoa)
RECURSIVE DigitsOf(_)
DigitsOf(n) ==
    IF n < 10 THEN <<Digits[n + 1]>>
    ELSE Append(DigitsOf(n \div 10), Digits[(n % 10) + 1])

----------------------------------------------------------------------------
(* The serde attributes of the two structs *)

\* serde's RenameRule::PascalCase on a field name
RECURSIVE PascalCase(_, _)
PascalCase(field, capitalize) ==
    IF field = <<>> THEN <<>>
    ELSE LET ch == Head(field)
         IN  IF ch = "_" THEN PascalCase(Tail(field), TRUE)
             ELSE IF capitalize
                  THEN <<to_ascii_uppercase(ch)>> \o PascalCase(Tail(field), FALSE)
                  ELSE <<ch>> \o PascalCase(Tail(field), FALSE)

\* #[serde(rename_all = "camelCase")]
CamelCase(field) ==
    LET pascal == PascalCase(field, TRUE)
    IN  <<to_ascii_lowercase(Head(pascal))>> \o Tail(pascal)

Field(name, rename, ty) == [name |-> name, rename |-> rename, ty |-> ty]

\* struct RevocationRegistryEntry, in declaration order
EntryFields ==
    <<Field(<<"r", "e", "v", "_", "r", "e", "g", "_", "d", "e", "f", "_", "i", "d">>,
            Some(<<"r", "e", "v", "R", "e", "g", "D", "e", "f", "I", "d">>),
            "RevocationRegistryDefinitionId"),
      Field(<<"i", "s", "s", "u", "e", "r", "_", "i", "d">>,
            Some(<<"i", "s", "s", "u", "e", "r", "I", "d">>),
            "DID"),
      Field(<<"r", "e", "v", "_", "r", "e", "g", "_", "e", "n", "t", "r", "y", "_", "d", "a", "t", "a">>,
            None,
            "RevocationRegistryEntryData")>>

\* struct RevocationRegistryEntryData, in declaration order
DataFields ==
    <<Field(<<"c", "u", "r", "r", "e", "n", "t", "_", "a", "c", "c", "u", "m", "u", "l", "a", "t", "o", "r">>,
            Some(<<"c", "u", "r", "r", "e", "n", "t", "A", "c", "c", "u", "m", "u", "l", "a", "t", "o", "r">>),
            "Accumulator"),
      Field(<<"p", "r", "e", "v", "_", "a", "c", "c", "u", "m", "u", "l", "a", "t", "o", "r">>,
            Some(<<"p", "r", "e", "v", "A", "c", "c", "u", "m", "u", "l", "a", "t", "o", "r">>),
            "Option<Accumulator>"),
      Field(<<"i", "s", "s", "u", "e", "d">>, None, "Option<Vec<u32>>"),
      Field(<<"r", "e", "v", "o", "k", "e", "d">>, None, "Option<Vec<u32>>")>>

\* Faulty variant: the struct's rename_all rule not applied.
SerdeName_ignores_rename_all(field) ==
    IF IsSome(field.rename) THEN Unwrap(field.rename) ELSE field.name

\* The name a field has in the serialized form: its own rename, else the
\* struct's rename_all rule.
SerdeName(field) ==
    IF IsSome(field.rename) THEN Unwrap(field.rename) ELSE CamelCase(field.name)

\* The field's value in a record of the model.
FieldValue(fields, k, rec) ==
    IF fields = EntryFields
    THEN CASE k = 1 -> rec.rev_reg_def_id
           [] k = 2 -> rec.issuer_id
           [] k = 3 -> rec.rev_reg_entry_data
    ELSE CASE k = 1 -> rec.current_accumulator
           [] k = 2 -> rec.prev_accumulator
           [] k = 3 -> rec.issued
           [] k = 4 -> rec.revoked

----------------------------------------------------------------------------
(* serde_json: writing *)

\* Faulty variant: quotes and backslashes written as they are.
WriteChar_unescaped(c) == <<c>>

\* serde_json's escape of one character of a string
WriteChar(c) ==
    IF c = "\"" THEN <<"\\", "\"">>
    ELSE IF c = "\\" THEN <<"\\", "\\">>
    ELSE <<c>>

RECURSIVE WriteChars(_)
WriteChars(s) == IF s = <<>> THEN <<>> ELSE WriteChar(Head(s)) \o WriteChars(Tail(s))

WriteStr(s) == <<"\"">> \o WriteChars(s) \o <<"\"">>

JsonNull == <<"n", "u", "l", "l">>

RECURSIVE WriteU32s(_)
WriteU32s(list) ==
    IF list = <<>> THEN <<>>
    ELSE IF Len(list) = 1 THEN DigitsOf(list[1])
    ELSE DigitsOf(Head(list)) \o <<",">> \o WriteU32s(Tail(list))

WriteVecU32(list) == <<"[">> \o WriteU32s(list) \o <<"]">>

\* The serialized names of the fields of both structs.
SerdeKeys ==
    [entry |-> [k \in 1..Len(EntryFields) |-> SerdeName(EntryFields[k])],
     data |-> [k \in 1..Len(DataFields) |-> SerdeName(DataFields[k])]]

RECURSIVE WriteStruct(_, _, _, _, _)
RECURSIVE WriteValue(_, _, _)

\* Serialize for a value of type ty; keys names the fields
WriteValue(keys, ty, v) ==
    CASE ty \in {"RevocationRegistryDefinitionId", "DID"} -> WriteStr(v)
      [] ty = "Accumulator" -> WriteStr(v.inner)
      [] ty = "Option<Accumulator>" ->
            IF IsNone(v) THEN JsonNull ELSE WriteStr(Unwrap(v).inner)
      [] ty = "Option<Vec<u32>>" ->
            IF IsNone(v) THEN JsonNull ELSE WriteVecU32(Unwrap(v))
      [] ty = "RevocationRegistryEntryData" ->
            <<"{">> \o WriteStruct(keys, DataFields, 1, v, <<>>) \o <<"}">>
      [] ty = "RevocationRegistryEntry" ->
            <<"{">> \o WriteStruct(keys, EntryFields, 1, v, <<>>) \o <<"}">>

\* SerializeStruct: "name":value for the fields from k on, comma separated
WriteStruct(keys, fields, k, rec, out) ==
    IF k > Len(fields) THEN out
    ELSE LET name == IF fields = EntryFields THEN keys.entry[k] ELSE keys.data[k]
         IN  WriteStruct(keys, fields, k + 1, rec,
                out \o (IF k > 1 THEN <<",">> ELSE <<>>)
                    \o WriteStr(name) \o <<":">>
                    \o WriteValue(keys, fields[k].ty, FieldValue(fields, k, rec)))

\* serde_json::to_string(&RevocationRegistryEntry): cannot fail for this type
serde_json_to_string(e) == Ok(WriteValue(SerdeKeys, "RevocationRegistryEntry", e))

\* RevocationRegistryEntry::to_string
to_string(self) ==
    LET r == serde_json_to_string(self)
    IN  IF IsOk(r) THEN r
        ELSE Err(InvalidRevocationRegistryEntry(
                 "Unable to serialize Revocation RegistryE Entry as JSON. Err: {:?}", <<r.val>>))

----------------------------------------------------------------------------
(* serde_json: reading *)

JNull == [t |-> "null"]
JBool(b) == [t |-> "bool", b |-> b]
JNum(digits) == [t |-> "num", digits |-> digits]
JStr(s) == [t |-> "str", s |-> s]
JArr(items) == [t |-> "arr", items |-> items]
JObj(members) == [t |-> "obj", members |-> members]

Parsed(v, next) == [ok |-> TRUE, val |-> v, next |-> next]
SyntaxError(msg, at) == [ok |-> FALSE, err |-> [serde |-> msg, at |-> at]]

EOF == "EOF"
At(t, i) == IF i <= Len(t) THEN t[i] ELSE EOF
Starts(t, i, word) == i + Len(word) - 1 <= Len(t) /\ SubSeq(t, i, i + Len(word) - 1) = word

RECURSIVE SkipWhitespace(_, _)
SkipWhitespace(t, i) == IF At(t, i) = " " THEN SkipWhitespace(t, i + 1) ELSE i

\* the characters of a string after its opening quote
RECURSIVE ParseStr(_, _, _)
ParseStr(t, i, out) ==
    LET c == At(t, i)
    IN  IF c = EOF THEN SyntaxError("EOF while parsing a string", i)
        ELSE IF c = "\"" THEN Parsed(JStr(out), i + 1)
        ELSE IF c = "\\"
             THEN IF At(t, i + 1) \in {"\"", "\\", "/"}
                  THEN ParseStr(t, i + 2, Append(out, At(t, i + 1)))
                  ELSE SyntaxError("invalid escape", i + 1)
        ELSE ParseStr(t, i + 1, Append(out, c))

RECURSIVE ParseDigits(_, _, _)
ParseDigits(t, i, out) ==
    IF IsDigit(At(t, i)) THEN ParseDigits(t, i + 1, Append(out, At(t, i)))
    ELSE IF Len(out) > 1 /\ out[1] = "0" THEN SyntaxError("invalid number", i)
    ELSE Parsed(JNum(out), i)

RECURSIVE ParseValue(_, _)
RECURSIVE ParseElements(_, _, _)
RECURSIVE ParseMembers(_, _, _)

ParseValue(t, i0) ==
    LET i == SkipWhitespace(t, i0)
        c == At(t, i)
    IN  CASE c = "\"" -> ParseStr(t, i + 1, <<>>)
          [] IsDigit(c) -> ParseDigits(t, i, <<>>)
          [] c = "n" -> IF Starts(t, i, JsonNull) THEN Parsed(JNull, i + 4)
                        ELSE SyntaxError("expected ident", i)
          [] c = "t" -> IF Starts(t, i, <<"t", "r", "u", "e">>) THEN Parsed(JBool(TRUE), i + 4)
                        ELSE SyntaxError("expected ident", i)
          [] c = "f" -> IF Starts(t, i, <<"f", "a", "l", "s", "e">>) THEN Parsed(JBool(FALSE), i + 5)
                        ELSE SyntaxError("expected ident", i)
          [] c = "[" -> LET j == SkipWhitespace(t, i + 1)
                        IN  IF At(t, j) = "]" THEN Parsed(JArr(<<>>), j + 1)
                            ELSE ParseElements(t, j, <<>>)
          [] c = "{" -> LET j == SkipWhitespace(t, i + 1)
                        IN  IF At(t, j) = "}" THEN Parsed(JObj(<<>>), j + 1)
                            ELSE ParseMembers(t, j, <<>>)
          [] c = EOF -> SyntaxError("EOF while parsing a value", i)
          [] OTHER -> SyntaxError("expected value", i)

ParseElements(t, i, out) ==
    LET v == ParseValue(t, i)
    IN  IF ~v.ok THEN v
        ELSE LET j == SkipWhitespace(t, v.next)
             IN  IF At(t, j) = "," THEN ParseElements(t, j + 1, Append(out, v.val))
                 ELSE IF At(t, j) = "]" THEN Parsed(JArr(Append(out, v.val)), j + 1)
                 ELSE SyntaxError("expected , or ]", j)

ParseMembers(t, i0, out) ==
    LET i == SkipWhitespace(t, i0)
    IN  IF At(t, i) # "\"" THEN SyntaxError("key must be a string", i)
        ELSE LET k == ParseStr(t, i + 1, <<>>)
             IN  IF ~k.ok THEN k
                 ELSE LET j == SkipWhitespace(t, k.next)
                      IN  IF At(t, j) # ":" THEN SyntaxError("expected :", j)
                          ELSE LET v == ParseValue(t, j + 1)
                               IN  IF ~v.ok THEN v
                                   ELSE LET n == SkipWhitespace(t, v.next)
                                            m == Append(out, [key |-> k.val.s, value |-> v.val])
                                        IN  IF At(t, n) = "," THEN ParseMembers(t, n + 1, m)
                                            ELSE IF At(t, n) = "}" THEN Parsed(JObj(m), n + 1)
                                            ELSE SyntaxError("expected , or }", n)

\* one JSON value and nothing after it
ParseJson(t) ==
    LET v == ParseValue(t, 1)
    IN  IF ~v.ok THEN v
        ELSE IF SkipWhitespace(t, v.next) <= Len(t)
             THEN SyntaxError("trailing characters", SkipWhitespace(t, v.next))
             ELSE v

DataError(msg, what) == [serde |-> msg, at |-> what]

IsOptionType(ty) == ty \in {"Option<Accumulator>", "Option<Vec<u32>>"}

RECURSIVE DeVecU32(_, _, _)
DeVecU32(items, k, out) ==
    IF k > Len(items) THEN Ok(out)
    ELSE IF items[k].t # "num" THEN Err(DataError("invalid type", items[k].t))
    ELSE IF ~FitsU32(items[k].digits) THEN Err(DataError("invalid value", items[k].digits))
    ELSE DeVecU32(items, k + 1, Append(out, NumberOf(items[k].digits)))

RECURSIVE Deserialize(_, _)
RECURSIVE VisitMap(_, _, _, _)
RECURSIVE VisitSeq(_, _, _, _)

FieldsOf(ty) == IF ty = "RevocationRegistryEntry" THEN EntryFields ELSE DataFields

\* the record of the model from the values of the fields, in declaration order
BuildStruct(ty, values) ==
    IF ty = "RevocationRegistryEntry"
    THEN [rev_reg_def_id |-> values[1], issuer_id |-> values[2], rev_reg_entry_data |-> values[3]]
    ELSE RevocationRegistryEntryData_new(values[1], values[2], values[3], values[4])

\* the derived visit_map: members in order; unknown keys are ignored, a key
\* seen twice is an error, and at the end a missing Option field is None
VisitMap(ty, members, k, slots) ==
    LET fields == FieldsOf(ty)
    IN  IF k > Len(members)
        THEN IF \E f \in 1..Len(fields) : IsNone(slots[f]) /\ ~IsOptionType(fields[f].ty)
             THEN LET f == CHOOSE f \in 1..Len(fields) :
                              /\ IsNone(slots[f]) /\ ~IsOptionType(fields[f].ty)
                              /\ \A g \in 1..(f - 1) : IsSome(slots[g]) \/ IsOptionType(fields[g].ty)
                  IN  Err(DataError("missing field", SerdeName(fields[f])))
             ELSE Ok(BuildStruct(ty, [f \in 1..Len(fields) |->
                        IF IsSome(slots[f]) THEN Unwrap(slots[f]) ELSE None]))
        ELSE LET hit == {f \in 1..Len(fields) : SerdeName(fields[f]) = members[k].key}
             IN  IF hit = {} THEN VisitMap(ty, members, k + 1, slots)
                 ELSE LET f == CHOOSE f \in hit : TRUE
                      IN  IF IsSome(slots[f])
                          THEN Err(DataError("duplicate field", SerdeName(fields[f])))
                          ELSE LET r == Deserialize(fields[f].ty, members[k].value)
                               IN  IF IsErr(r) THEN r
                                   ELSE VisitMap(ty, members, k + 1,
                                                 [slots EXCEPT ![f] = Some(r.val)])

\* the derived visit_seq: the fields by position
VisitSeq(ty, items, k, values) ==
    LET fields == FieldsOf(ty)
    IN  IF k > Len(fields)
        THEN IF Len(items) > Len(fields)
             THEN Err(DataError("trailing characters", Len(items)))
             ELSE Ok(BuildStruct(ty, values))
        ELSE IF k > Len(items) THEN Err(DataError("invalid length", Len(items)))
        ELSE LET r == Deserialize(fields[k].ty, items[k])
             IN  IF IsErr(r) THEN r
                 ELSE VisitSeq(ty, items, k + 1, Append(values, r.val))

\* Deserialize for type ty from a JSON value
Deserialize(ty, v) ==
    CASE ty \in {"RevocationRegistryDefinitionId", "DID"} ->
            IF v.t = "str" THEN Ok(v.s) ELSE Err(DataError("invalid type", v.t))
      [] ty = "Accumulator" ->
            IF v.t = "str" THEN Ok(Accumulator_from(v.s)) ELSE Err(DataError("invalid type", v.t))
      [] ty = "Option<Accumulator>" ->
            IF v.t = "null" THEN Ok(None)
            ELSE IF v.t = "str" THEN Ok(Some(Accumulator_from(v.s)))
            ELSE Err(DataError("invalid type", v.t))
      [] ty = "Option<Vec<u32>>" ->
            IF v.t = "null" THEN Ok(None)
            ELSE IF v.t = "arr"
                 THEN LET r == DeVecU32(v.items, 1, <<>>)
                      IN  IF IsErr(r) THEN r ELSE Ok(Some(r.val))
            ELSE Err(DataError("invalid type", v.t))
      [] ty \in {"RevocationRegistryEntry", "RevocationRegistryEntryData"} ->
            IF v.t = "obj"
            THEN VisitMap(ty, v.members, 1, [f \in 1..Len(FieldsOf(ty)) |-> None])
            ELSE IF v.t = "arr" THEN VisitSeq(ty, v.items, 1, <<>>)
            ELSE Err(DataError("invalid type", v.t))

\* serde_json::from_str::<RevocationRegistryEntry>
serde_json_from_str(value) ==
    LET p == ParseJson(value)
    IN  IF ~p.ok THEN Err(p.err) ELSE Deserialize("RevocationRegistryEntry", p.val)

\* serde_json::from_slice::<RevocationRegistryEntry>
serde_json_from_slice(bytes) ==
    IF \A k \in 1..Len(bytes) : IsAsciiByte(bytes[k])
    THEN serde_json_from_str(from_utf8(bytes))
    ELSE Err(DataError("invalid unicode code point", 0))

\* RevocationRegistryEntry::from_string
from_string(value) ==
    LET r == serde_json_from_str(value)
    IN  IF IsOk(r) THEN r
        ELSE Err(InvalidRevocationRegistryEntry(
                 "Unable to parse Revocation Registry Entry from JSON. Err: {:?}", <<r.val>>))

\* TryFrom<&Bytes> for RevocationRegistryEntry
RevocationRegistryEntry_try_from(value) ==
    LET r == serde_json_from_slice(value)
    IN  IF IsOk(r) THEN r
        ELSE Err(InvalidRevocationRegistryEntry(
                 "Unable to parse Revocation Registry Entry from the response. Err: {:?}",
                 <<r.val>>))

ContractParam_Bytes(bytes) == [variant |-> "Bytes", bytes |-> bytes]
ContractInvalidInputData == [variant |-> "ContractInvalidInputData"]

\* serde_json::to_vec
serde_json_to_vec(e) ==
    LET r == serde_json_to_string(e)
    IN  IF IsOk(r) THEN Ok(as_bytes(r.val)) ELSE r

\* TryFrom<&RevocationRegistryEntry> for ContractParam
ContractParam_try_from(value) ==
    LET r == serde_json_to_vec(value)
    IN  IF IsOk(r) THEN Ok(ContractParam_Bytes(r.val)) ELSE Err(ContractInvalidInputData)

----------------------------------------------------------------------------
(* The calls of the codec: a behaviour encodes one entry and decodes what   *)
(* was written, or decodes a text another participant wrote.                *)

CodecAccumulators == {Accumulator_from(s) : s \in StringsUpTo(MaxStrLen) \cup {Str123}}

\* issued / revoked: absent, present and empty, and present with indices up to
\* the largest the model's integers hold
IndexLists == {None, Some(<<>>), Some(<<0>>), Some(<<7, 2147483647>>)}

CodecEntries ==
    {RevocationRegistryEntry_new(RevRegDef, Did123, c, p, i, r) :
        c \in CodecAccumulators, p \in Option(CodecAccumulators),
        i \in IndexLists, r \in IndexLists}

KeyRevRegDefId == <<"r", "e", "v", "R", "e", "g", "D", "e", "f", "I", "d">>
KeyIssuerId == <<"i", "s", "s", "u", "e", "r", "I", "d">>
KeyRevRegEntryData == <<"r", "e", "v", "R", "e", "g", "E", "n", "t", "r", "y", "D", "a", "t", "a">>
KeyRevRegEntryDataSnake == <<"r", "e", "v", "_", "r", "e", "g", "_", "e", "n", "t", "r", "y", "_", "d", "a", "t", "a">>
KeyCurrentAccumulator == <<"c", "u", "r", "r", "e", "n", "t", "A", "c", "c", "u", "m", "u", "l", "a", "t", "o", "r">>
KeyPrevAccumulator == <<"p", "r", "e", "v", "A", "c", "c", "u", "m", "u", "l", "a", "t", "o", "r">>
KeyIssued == <<"i", "s", "s", "u", "e", "d">>
KeyRevoked == <<"r", "e", "v", "o", "k", "e", "d">>

DataKeys == <<KeyCurrentAccumulator, KeyPrevAccumulator, KeyIssued, KeyRevoked>>

\* The names other participants may write: all camelCase, or the entry data
\* under the name of the Rust field.
WireKeys ==
    {[entry |-> <<KeyRevRegDefId, KeyIssuerId, KeyRevRegEntryData>>, data |-> DataKeys],
     [entry |-> <<KeyRevRegDefId, KeyIssuerId, KeyRevRegEntryDataSnake>>, data |-> DataKeys]}

CallToString ==
    /\ op = "new"
    /\ \E e \in CodecEntries :
        /\ op' = "to_string"
        /\ entry' = e
        /\ text' = to_string(e)
        /\ UNCHANGED <<acc, prev_accum_from_ledger, status_list, result, checks,
                       ledger, accepted, decoded, log, record>>

CallFromString ==
    /\ op = "to_string"
    /\ IsOk(text)
    /\ op' = "from_string"
    /\ decoded' = from_string(text.val)
    /\ UNCHANGED <<acc, entry, prev_accum_from_ledger, status_list, result, checks,
                   ledger, accepted, text, log, record>>

CallContractParamTryFrom ==
    /\ op = "new"
    /\ \E e \in CodecEntries :
        /\ op' = "ContractParam::try_from"
        /\ entry' = e
        /\ text' = ContractParam_try_from(e)
        /\ UNCHANGED <<acc, prev_accum_from_ledger, status_list, result, checks,
                       ledger, accepted, decoded, log, record>>

CallEntryTryFromBytes ==
    /\ op = "ContractParam::try_from"
    /\ IsOk(text)
    /\ op' = "RevocationRegistryEntry::try_from"
    /\ decoded' = RevocationRegistryEntry_try_from(text.val.bytes)
    /\ UNCHANGED <<acc, entry, prev_accum_from_ledger, status_list, result, checks,
                   ledger, accepted, text, log, record>>

\* from_string on the text a participant wrote for entry e
CallFromStringWire ==
    /\ op = "new"
    /\ \E e \in CodecEntries, keys \in WireKeys :
        /\ op' = "from_string(wire)"
        /\ entry' = e
        /\ text' = Ok(WriteValue(keys, "RevocationRegistryEntry", e))
        /\ decoded' = from_string(text'.val)
        /\ UNCHANGED <<acc, prev_accum_from_ledger, status_list, result, checks,
                       ledger, accepted, log, record>>

CodecNext ==
    \/ CallToString
    \/ CallFromString
    \/ CallContractParamTryFrom
    \/ CallEntryTryFromBytes
    \/ CallFromStringWire

CodecSpec == Init /\ [][CodecNext]_vars

----------------------------------------------------------------------------
(* Ledger log records and the creation event *)

\* An operation that does not return: the thread panics.
Panic(msg, cause) == [tag |-> "panic", val |-> [msg |-> msg, cause |-> cause]]
IsPanic(r) == r.tag = "panic"
UnwrapOnErr == "called Result::unwrap() on an Err value"

\* The ABI tokens of a log record: the bytes of a bytes token, and the value
\* of an unsigned integer with whether it lies in the range of a block number.
Token(type, bytes, value, in_block_range) ==
    [type |-> type, bytes |-> bytes, value |-> value, in_block_range |-> in_block_range]
FixedBytes(b) == Token("FixedBytes", b, 0, TRUE)
Uint(n, in_block_range) == Token("Uint", <<>>, n, in_block_range)
Bytes(b) == Token("Bytes", b, 0, TRUE)

\* ContractEvent: the tokens of the log record by position, from 0
ContractEvent(tokens) == [tokens |-> tokens]

\* The error of a positional accessor: the field index and the cause.
EventDecodeError(index, cause) ==
    [variant |-> "EventDecodeError", index |-> index, cause |-> cause]

\* The token at index, when it is there and has the type asked for.
get_item(event, index, type) ==
    IF index >= Len(event.tokens)
    THEN Err(EventDecodeError(index, "missing value"))
    ELSE IF event.tokens[index + 1].type # type
         THEN Err(EventDecodeError(index, "unexpected type"))
         ELSE Ok(event.tokens[index + 1])

\* The typed positional accessors
get_fixed_bytes(event, index) ==
    LET item == get_item(event, index, "FixedBytes")
    IN  IF IsErr(item) THEN item ELSE Ok(item.val.bytes)

get_uint(event, index) ==
    LET item == get_item(event, index, "Uint")
    IN  IF IsErr(item) THEN item
        ELSE Ok([value |-> item.val.value, in_block_range |-> item.val.in_block_range])

get_bytes(event, index) ==
    LET item == get_item(event, index, "Bytes")
    IN  IF IsErr(item) THEN item ELSE Ok(item.val.bytes)

\* Block::try_from on the unsigned integer of the log
Block_try_from(u) ==
    IF u.in_block_range THEN Ok([block |-> u.value])
    ELSE Err([variant |-> "TryFromIntError"])

RevRegEntryCreated(id, timestamp, parent_block_number, rev_reg_entry) ==
    [revocation_registry_definition_id |-> id,
     timestamp |-> timestamp,
     parent_block_number |-> parent_block_number,
     rev_reg_entry |-> rev_reg_entry]

\* Faulty variant: the error of the entry's decoding replaced by an accessor
\* error for position 3.
RevRegEntryCreated_try_from_rewraps(event) ==
    LET revocation_registry_definition_id == get_fixed_bytes(event, 0)
        timestamp == get_uint(event, 1)
        uint2 == get_uint(event, 2)
        rev_reg_entry_tuple == get_bytes(event, 3)
    IN  IF IsErr(revocation_registry_definition_id) THEN revocation_registry_definition_id
        ELSE IF IsErr(timestamp) THEN timestamp
        ELSE IF IsErr(uint2) THEN Panic(UnwrapOnErr, uint2.val)
        ELSE IF IsErr(Block_try_from(uint2.val))
             THEN Panic(UnwrapOnErr, Block_try_from(uint2.val).val)
        ELSE IF IsErr(rev_reg_entry_tuple) THEN rev_reg_entry_tuple
        ELSE LET rev_reg_entry == RevocationRegistryEntry_try_from(rev_reg_entry_tuple.val)
             IN  IF IsErr(rev_reg_entry)
                 THEN Err(EventDecodeError(3, rev_reg_entry.val))
                 ELSE Ok(RevRegEntryCreated(revocation_registry_definition_id.val,
                                            timestamp.val.value,
                                            Block_try_from(uint2.val).val,
                                            rev_reg_entry.val))

\* TryFrom<ContractEvent> for RevRegEntryCreated: the ? operator returns the
\* error of the accessors at 0, 1 and 3 and of the entry's decoding; both
\* results at position 2 are unwrapped.
RevRegEntryCreated_try_from(event) ==
    LET revocation_registry_definition_id == get_fixed_bytes(event, 0)
        timestamp == get_uint(event, 1)
        uint2 == get_uint(event, 2)
        rev_reg_entry_tuple == get_bytes(event, 3)
    IN  IF IsErr(revocation_registry_definition_id) THEN revocation_registry_definition_id
        ELSE IF IsErr(timestamp) THEN timestamp
        ELSE IF IsErr(uint2) THEN Panic(UnwrapOnErr, uint2.val)
        ELSE IF IsErr(Block_try_from(uint2.val))
             THEN Panic(UnwrapOnErr, Block_try_from(uint2.val).val)
        ELSE IF IsErr(rev_reg_entry_tuple) THEN rev_reg_entry_tuple
        ELSE LET rev_reg_entry == RevocationRegistryEntry_try_from(rev_reg_entry_tuple.val)
             IN  IF IsErr(rev_reg_entry) THEN rev_reg_entry
                 ELSE Ok(RevRegEntryCreated(revocation_registry_definition_id.val,
                                            timestamp.val.value,
                                            Block_try_from(uint2.val).val,
                                            rev_reg_entry.val))

----------------------------------------------------------------------------
(* The calls of the event decoder: a behaviour decodes one log record.      *)

\* The entry of the repository's tests and one with every field set.
LoggedEntries ==
    {RevocationRegistryEntry_new(RevRegDef, Did123, Accumulator_from(Str123), None, None, None),
     RevocationRegistryEntry_new(RevRegDef, Did456, Accumulator_from(LedgerPrev),
                                 Some(Accumulator_from(Str123)), Some(<<0>>), Some(<<7>>))}

\* Texts that are not an entry: cut short, an object without the entry's
\* fields, a value of another type.
TextCutShort == <<"{">>
TextEmptyObject == <<"{", "}">>
TextNumber == <<"7">>
NotEntryTexts == {TextCutShort, TextEmptyObject, TextNumber}

\* A byte that is not UTF-8 on its own.
BytesNotUtf8 == <<255>>

\* The payloads a log record carries at position 3.
Payloads ==
    {as_bytes(to_string(e).val) : e \in LoggedEntries}
        \cup {as_bytes(t) : t \in NotEntryTexts}
        \cup {BytesNotUtf8}

RegistryIdBytes == <<1, 2>>

EventTokens ==
    {FixedBytes(RegistryIdBytes), Uint(7, TRUE), Uint(9, FALSE)}
        \cup {Bytes(b) : b \in Payloads}

\* Most tokens a log record has.
LogLen == 4

\* Log records: any token at any position, and records that end early.
LogTokens == UNION {[1..n -> EventTokens] : n \in 0..LogLen}

CallEventTryFrom ==
    /\ op = "new"
    /\ \E tokens \in LogTokens :
        /\ op' = "RevRegEntryCreated::try_from"
        /\ log' = ContractEvent(tokens)
        /\ decoded' = RevRegEntryCreated_try_from(log')
        /\ UNCHANGED <<acc, entry, prev_accum_from_ledger, status_list, result, checks,
                       ledger, accepted, text, record>>

EventNext == CallEventTryFrom

EventSpec == Init /\ [][EventNext]_vars

----------------------------------------------------------------------------
(* Every operation that can fail, called once: the errors a caller meets.   *)

\* Texts from_string is called on: entries as written, and texts that are not
\* an entry.
DecodedTexts == {to_string(e).val : e \in LoggedEntries} \cup NotEntryTexts

CallFromStringOnText ==
    /\ op = "new"
    /\ \E t \in DecodedTexts :
        /\ op' = "from_string(text)"
        /\ text' = Ok(t)
        /\ decoded' = from_string(t)
        /\ UNCHANGED <<acc, entry, prev_accum_from_ledger, status_list, result, checks,
                       ledger, accepted, log, record>>

CallEntryTryFromOnBytes ==
    /\ op = "new"
    /\ \E b \in Payloads :
        /\ op' = "RevocationRegistryEntry::try_from(bytes)"
        /\ text' = Ok(ContractParam_Bytes(b))
        /\ decoded' = RevocationRegistryEntry_try_from(b)
        /\ UNCHANGED <<acc, entry, prev_accum_from_ledger, status_list, result, checks,
                       ledger, accepted, log, record>>

ErrorNext ==
    \/ CallAccumulatorValidate
    \/ CallValidate
    \/ CallValidateWithLedger
    \/ CallValidateWithStatusList
    \/ CallFromStringOnText
    \/ CallEntryTryFromOnBytes
    \/ CallEventTryFrom

ErrorSpec == Init /\ [][ErrorNext]_vars

----------------------------------------------------------------------------
(* The binding: export records and the exported to_string *)

\* The export record RevocationRegistryEntry of the binding: two strings and
\* the entry data as a JSON value.
ExportRecord(issuer_id, rev_reg_def_id, rev_reg_entry_data) ==
    [issuer_id |-> issuer_id,
     rev_reg_def_id |-> rev_reg_def_id,
     rev_reg_entry_data |-> rev_reg_entry_data]

\* JsonValue::into_inner
into_inner(json) == json

\* serde_json::from_value::<RevocationRegistryEntryData>
serde_json_from_value(value) ==
    Deserialize("RevocationRegistryEntryData", value)

\* serde_json::to_value of entry data: the value its JSON text stands for
serde_json_to_value(data) ==
    ParseJson(WriteValue(SerdeKeys, "RevocationRegistryEntryData", data)).val

\* DID::from(&str), RevocationRegistryDefinitionId::from(&str)
DID_from(s) == s
RevocationRegistryDefinitionId_from(s) == s

\* From<&RevocationRegistryEntry> for RevocationRegistryEntry_: the result of
\* from_value is unwrapped.
RevocationRegistryEntry__from(rec) ==
    LET data == serde_json_from_value(into_inner(rec.rev_reg_entry_data))
    IN  IF IsErr(data) THEN Panic(UnwrapOnErr, data.val)
        ELSE Ok([rev_reg_def_id |-> RevocationRegistryDefinitionId_from(rec.rev_reg_def_id),
                 issuer_id |-> DID_from(rec.issuer_id),
                 rev_reg_entry_data |-> data.val])

\* The binding's VdrError from the core's
VdrError_from(err) == [variant |-> "ffi::VdrError", source |-> err]

\* revocation_registry_entry_to_string
revocation_registry_entry_to_string(rev_reg_entry) ==
    LET converted == RevocationRegistryEntry__from(rev_reg_entry)
    IN  IF IsPanic(converted) THEN converted
        ELSE LET r == to_string(converted.val)
             IN  IF IsOk(r) THEN r ELSE Err(VdrError_from(r.val))

\* Entry data as another language hands it over: data of entries, and values
\* that do not fit the schema.
ExportedData ==
    {RevocationRegistryEntryData_new(Accumulator_from(c), p, i, r) :
        c \in {EmptyString, Str123, <<"\"">>},
        p \in Option({Accumulator_from(EmptyString), Accumulator_from(LedgerPrev)}),
        i \in IndexLists, r \in {None, Some(<<7>>)}}

UnfitValues ==
    {JNull,
     JObj(<<>>),
     JStr(Str123),
     JObj(<<[key |-> KeyCurrentAccumulator, value |-> JNum(<<"7">>)]>>),
     JObj(<<[key |-> KeyCurrentAccumulator, value |-> JStr(Str123)],
            [key |-> KeyIssued, value |-> JArr(<<JNum(U32MaxDigits \o <<"0">>)>>)]>>)}

ExportRecords ==
    {ExportRecord(i, r, d) :
        i \in Dids, r \in RevRegDefIds,
        d \in {serde_json_to_value(x) : x \in ExportedData} \cup UnfitValues}

CallBindingEntryToString ==
    /\ op = "new"
    /\ \E rec \in ExportRecords :
        /\ op' = "revocation_registry_entry_to_string"
        /\ record' = rec
        /\ result' = revocation_registry_entry_to_string(rec)
        /\ UNCHANGED <<acc, entry, prev_accum_from_ledger, status_list, checks,
                       ledger, accepted, text, decoded, log>>

BindingNext == CallBindingEntryToString

BindingSpec == Init /\ [][BindingNext]_vars

----------------------------------------------------------------------------
(* Properties *)

HasFmt(r, f) == IsErr(r) /\ r.val.variant = "InvalidRevocationRegistryEntry" /\ r.val.fmt = f

FmtIncorrect == "Incorrect Accumulator: {}"
FmtMismatch == "prev_accum mismatch: expected {}, found {}"
FmtMissingLocal == "prev_accum not provided locally, but exists on the ledger"
FmtUnexpectedLocal == "prev_accum provided locally, but does not exist on the ledger"
FmtIssuer == "issuer mismatch: entry issuer {} != status list issuer {}"

EntryCur == as_ref(entry.rev_reg_entry_data.current_accumulator)
EntryPrev == entry.rev_reg_entry_data.prev_accumulator
EntryPrevIs(s) == IsSome(EntryPrev) /\ as_ref(Unwrap(EntryPrev)) = s
LocallyValid == EntryCur # EmptyString /\ ~EntryPrevIs(EmptyString)

\* C1: validate_with_ledger passes exactly when the entry's prev_accumulator
\* and the ledger's value are both absent or both present and equal; both
\* present and unequal is the mismatch error naming both values; local absent
\* with ledger present is the 'not provided locally' error; local present with
\* ledger absent is the 'provided locally' error.
C1_LedgerPairTruthTable ==
    op = "validate_with_ledger" =>
        LET led == prev_accum_from_ledger
        IN  /\ IsOk(result) <=>
                \/ IsNone(EntryPrev) /\ IsNone(led)
                \/ IsSome(EntryPrev) /\ IsSome(led)
                   /\ as_ref(Unwrap(EntryPrev)) = as_ref(Unwrap(led))
            /\ (IsSome(EntryPrev) /\ IsSome(led)
                /\ as_ref(Unwrap(EntryPrev)) # as_ref(Unwrap(led)))
               => /\ HasFmt(result, FmtMismatch)
                  /\ MessageMentions(result.val, as_ref(Unwrap(led)))
                  /\ MessageMentions(result.val, as_ref(Unwrap(EntryPrev)))
            /\ (IsNone(EntryPrev) /\ IsSome(led)) => HasFmt(result, FmtMissingLocal)
            /\ (IsSome(EntryPrev) /\ IsNone(led)) => HasFmt(result, FmtUnexpectedLocal)

C1_Witness ==
    /\ op = "validate_with_ledger"
    /\ EntryPrevIs(LocalPrev)
    /\ prev_accum_from_ledger = Some(Accumulator_from(LedgerPrev))
    /\ HasFmt(result, FmtMismatch)

\* C2: the accepted entries of a registry form a chain: the first has no
\* prev_accumulator, every later one names the current_accumulator of the
\* entry accepted just before it, and the ledger holds the last one's
\* current_accumulator.
C2_AccumulatorChain ==
    /\ \A k \in 1..Len(accepted) :
        LET d == accepted[k].rev_reg_entry_data
        IN  IF k = 1
            THEN d.prev_accumulator = None
            ELSE d.prev_accumulator = Some(accepted[k - 1].rev_reg_entry_data.current_accumulator)
    /\ ledger = IF accepted = <<>>
                THEN EmptyString
                ELSE as_ref(accepted[Len(accepted)].rev_reg_entry_data.current_accumulator)

C2_Witness ==
    /\ Len(accepted) >= 3
    /\ accepted[2].rev_reg_entry_data.current_accumulator
         # accepted[1].rev_reg_entry_data.current_accumulator

C5_StatusListIsLedgerPair ==
    (op = "validate_with_status_list" /\ IsSome(status_list) /\ LocallyValid
     /\ Unwrap(status_list).issuer_id = entry.issuer_id) =>
        LET s == Unwrap(status_list).current_accumulator
            derived == IF s = EmptyString THEN None ELSE Some(Accumulator_from(s))
        IN  /\ result = validate_with_ledger(entry, derived)
            /\ (IsNone(EntryPrev) /\ s = EmptyString) => IsOk(result)
            /\ (EntryPrevIs(Str123) /\ s = Str123) => IsOk(result)

C5_Witness ==
    /\ op = "validate_with_status_list"
    /\ IsSome(status_list)
    /\ Unwrap(status_list).issuer_id = entry.issuer_id
    /\ Unwrap(status_list).current_accumulator = EmptyString
    /\ EntryCur # EmptyString
    /\ IsNone(EntryPrev)
    /\ IsOk(result)

\* C6: the issuer-mismatch error is returned exactly when the entry is locally
\* valid, a status list is supplied and its issuer_id differs from the
\* entry's; the message names both issuers; without a status list it is never
\* returned.
C6_IssuerMismatchExactly ==
    op = "validate_with_status_list" =>
        /\ HasFmt(result, FmtIssuer) <=>
              (LocallyValid /\ IsSome(status_list)
               /\ Unwrap(status_list).issuer_id # entry.issuer_id)
        /\ HasFmt(result, FmtIssuer) =>
              result.val.args = <<entry.issuer_id, Unwrap(status_list).issuer_id>>
        /\ IsNone(status_list) => ~HasFmt(result, FmtIssuer)

C6_Witness ==
    /\ op = "validate_with_status_list"
    /\ IsSome(status_list)
    /\ entry.issuer_id = Did123
    /\ Unwrap(status_list).issuer_id = Did456
    /\ HasFmt(result, FmtIssuer)

\* C7: validate fails exactly when current_accumulator is empty or
\* prev_accumulator is present and empty; current_accumulator is checked
\* first, so an empty current_accumulator is reported without
\* prev_accumulator being looked at.
C7_LocalValidation ==
    op = "validate" =>
        /\ IsErr(result) <=> (EntryCur = EmptyString \/ EntryPrevIs(EmptyString))
        /\ IsErr(result) => result = Err(InvalidRevocationRegistryEntry(FmtIncorrect, <<EmptyString>>))
        /\ IsOk(result) => result = Ok(Unit)
        /\ EntryCur = EmptyString => checks = <<"current_accumulator">>
        /\ (EntryCur # EmptyString /\ IsSome(EntryPrev))
           => checks = <<"current_accumulator", "prev_accumulator">>
        /\ (EntryCur # EmptyString /\ IsNone(EntryPrev))
           => checks = <<"current_accumulator">>

C7_Witness ==
    /\ op = "validate"
    /\ EntryCur = EmptyString
    /\ EntryPrevIs(EmptyString)
    /\ IsErr(result)

\* C8: an Accumulator is built from every raw string, and its validate
\* succeeds for every non-empty string and fails with 'Incorrect Accumulator'
\* for the empty one.
C8_AccumulatorValidate ==
    op = "Accumulator::validate" =>
        /\ as_ref(acc) \in RawStrings
        /\ as_ref(acc) # EmptyString => result = Ok(Unit)
        /\ as_ref(acc) = EmptyString
           => result = Err(InvalidRevocationRegistryEntry(FmtIncorrect, <<EmptyString>>))

C8_Witness ==
    /\ op = "Accumulator::validate"
    /\ as_ref(acc) = EmptyString
    /\ IsErr(result)

\* The keys of the JSON object t, in the order written.
KeysOf(obj) == [k \in 1..Len(obj.members) |-> obj.members[k].key]
TopLevelKeys(t) == KeysOf(ParseJson(t).val)
EntryDataKeys(t) == KeysOf(ParseJson(t).val.members[3].value)

\* C9: decoding what was encoded gives the entry back, for every entry (valid
\* or not): from_string(to_string(e)) = e, and TryFrom<&Bytes> on the bytes of
\* the entry's ContractParam = e.
C9_CodecRoundTrip ==
    /\ op \in {"to_string", "ContractParam::try_from"} => IsOk(text)
    /\ op = "from_string" => decoded = Ok(entry)
    /\ op = "RevocationRegistryEntry::try_from" => decoded = Ok(entry)

C9_Witness ==
    /\ op = "from_string"
    /\ EntryCur = <<"\"">>
    /\ EntryPrevIs(<<"\\">>)
    /\ entry.rev_reg_entry_data.issued = Some(<<>>)
    /\ entry.rev_reg_entry_data.revoked = Some(<<7, 2147483647>>)
    /\ decoded = Ok(entry)

\* C10 as stated: the JSON text of an entry has the top-level keys revRegDefId,
\* issuerId and rev_reg_entry_data, the entry data has the keys
\* currentAccumulator, prevAccumulator, issued and revoked, and from_string
\* accepts a text that uses those names.
C10_WireNamesAsDocumented ==
    /\ op = "to_string" =>
        /\ TopLevelKeys(text.val) = <<KeyRevRegDefId, KeyIssuerId, KeyRevRegEntryDataSnake>>
        /\ EntryDataKeys(text.val) = DataKeys
    /\ (op = "from_string(wire)" /\ TopLevelKeys(text.val)[3] = KeyRevRegEntryDataSnake)
       => decoded = Ok(entry)

\* C10 as amended: the top-level keys are revRegDefId, issuerId and
\* revRegEntryData, the entry data has the keys currentAccumulator,
\* prevAccumulator, issued and revoked; from_string accepts a text that uses
\* those names and rejects one that names the entry data rev_reg_entry_data,
\* as missing the field revRegEntryData.
C10_WireNamesCamelCase ==
    /\ op = "to_string" =>
        /\ TopLevelKeys(text.val) = <<KeyRevRegDefId, KeyIssuerId, KeyRevRegEntryData>>
        /\ EntryDataKeys(text.val) = DataKeys
    /\ (op = "from_string(wire)" /\ TopLevelKeys(text.val)[3] = KeyRevRegEntryData)
       => decoded = Ok(entry)
    /\ (op = "from_string(wire)" /\ TopLevelKeys(text.val)[3] = KeyRevRegEntryDataSnake)
       => /\ IsErr(decoded)
          /\ decoded.val.args = <<DataError("missing field", KeyRevRegEntryData)>>

C10_Witness ==
    /\ op = "from_string(wire)"
    /\ TopLevelKeys(text.val)[3] = KeyRevRegEntryDataSnake
    /\ IsErr(decoded)

FmtFromJson == "Unable to parse Revocation Registry Entry from JSON. Err: {:?}"
FmtFromResponse == "Unable to parse Revocation Registry Entry from the response. Err: {:?}"

\* The accessor the decoder uses at each position of the log record.
Accessor(i) ==
    CASE i = 0 -> get_fixed_bytes(log, 0)
      [] i = 1 -> get_uint(log, 1)
      [] i = 2 -> get_uint(log, 2)
      [] i = 3 -> get_bytes(log, 3)

HeadWellFormed ==
    /\ \A i \in 0..2 : IsOk(Accessor(i))
    /\ IsOk(Block_try_from(Accessor(2).val))

\* C11: decoding a creation event never aborts: every log record gives a
\* value back to the caller, Ok or Err; a failure of an accessor at position
\* 0, 1, 2 or 3, and a position-2 value that is not a block number, give Err.
C11_EventDecodeNeverAborts ==
    op = "RevRegEntryCreated::try_from" =>
        /\ decoded.tag \in {"Ok", "Err"}
        /\ (\E i \in 0..3 : IsErr(Accessor(i))) => IsErr(decoded)
        /\ (IsOk(Accessor(2)) /\ IsErr(Block_try_from(Accessor(2).val))) => IsErr(decoded)

\* C12 as stated: with positions 0, 1 and 2 well formed and bytes at position
\* 3 that are not the JSON of an entry, decoding fails with an event-decode
\* error that names field index 3 and wraps the serialization error.
C12_PayloadErrorNamesIndex ==
    (op = "RevRegEntryCreated::try_from" /\ HeadWellFormed /\ IsOk(Accessor(3))
     /\ IsErr(serde_json_from_slice(Accessor(3).val))) =>
        /\ IsErr(decoded)
        /\ decoded.val.variant = "EventDecodeError"
        /\ decoded.val.index = 3
        /\ decoded.val.cause = serde_json_from_slice(Accessor(3).val).val

\* C12 as amended: with positions 0, 1 and 2 well formed and bytes at position
\* 3 that are not the JSON of an entry, decoding fails and produces no event;
\* the error is InvalidRevocationRegistryEntry 'Unable to parse Revocation
\* Registry Entry from the response', carrying the serde_json error and no
\* field index.
C12_PayloadErrorUnchanged ==
    (op = "RevRegEntryCreated::try_from" /\ HeadWellFormed /\ IsOk(Accessor(3))
     /\ IsErr(serde_json_from_slice(Accessor(3).val))) =>
        /\ ~IsOk(decoded)
        /\ HasFmt(decoded, FmtFromResponse)
        /\ decoded.val.args = <<serde_json_from_slice(Accessor(3).val).val>>
        /\ DOMAIN decoded.val = {"variant", "fmt", "args"}

C12_Witness ==
    /\ op = "RevRegEntryCreated::try_from"
    /\ HeadWellFormed
    /\ Accessor(3) = Ok(as_bytes(TextCutShort))
    /\ HasFmt(decoded, FmtFromResponse)

\* The failure causes of the specification.
CauseEmpty == "empty accumulator"
CauseMismatch == "accumulator mismatch"
CauseMissingLocal == "missing local previous"
CauseUnexpectedLocal == "unexpected local previous"
CauseIssuer == "issuer mismatch"
CauseSerialization == "serialization failure"
CauseEventDecode == "event-decode failure"
NoCause == "none"

\* The cause of the failure of the ledger-pair check on a local and a ledger
\* value.
PairCause(local, led) ==
    CASE IsSome(local) /\ IsSome(led) ->
            IF as_ref(Unwrap(local)) # as_ref(Unwrap(led)) THEN CauseMismatch ELSE NoCause
      [] IsNone(local) /\ IsSome(led) -> CauseMissingLocal
      [] IsSome(local) /\ IsNone(led) -> CauseUnexpectedLocal
      [] OTHER -> NoCause

DerivedLedgerValue ==
    IF IsSome(status_list) /\ Unwrap(status_list).current_accumulator # EmptyString
    THEN Some(Accumulator_from(Unwrap(status_list).current_accumulator))
    ELSE None

\* What the call returned, and the cause of its failure from the call's
\* arguments.
Outcome ==
    IF op \in {"Accumulator::validate", "validate", "validate_with_ledger",
               "validate_with_status_list"}
    THEN result ELSE decoded

Cause ==
    CASE op = "Accumulator::validate" ->
            IF as_ref(acc) = EmptyString THEN CauseEmpty ELSE NoCause
      [] op = "validate" -> IF LocallyValid THEN NoCause ELSE CauseEmpty
      [] op = "validate_with_ledger" -> PairCause(EntryPrev, prev_accum_from_ledger)
      [] op = "validate_with_status_list" ->
            IF ~LocallyValid THEN CauseEmpty
            ELSE IF IsSome(status_list) /\ Unwrap(status_list).issuer_id # entry.issuer_id
                 THEN CauseIssuer
                 ELSE PairCause(EntryPrev, DerivedLedgerValue)
      [] op = "from_string(text)" ->
            IF IsErr(serde_json_from_str(text.val)) THEN CauseSerialization ELSE NoCause
      [] op = "RevocationRegistryEntry::try_from(bytes)" ->
            IF IsErr(serde_json_from_slice(text.val.bytes)) THEN CauseSerialization ELSE NoCause
      [] op = "RevRegEntryCreated::try_from" ->
            IF IsErr(decoded) THEN CauseEventDecode ELSE NoCause
      [] OTHER -> NoCause

\* One failure of each cause, as the code reports it.
ReferenceFailures ==
    <<[cause |-> CauseEmpty,
       err |-> Accumulator_validate(Accumulator_from(EmptyString)).val],
      [cause |-> CauseMismatch,
       err |-> validate_with_ledger(
                   RevocationRegistryEntry_new(RevRegDef, Did123, Accumulator_from(Str123),
                       Some(Accumulator_from(LocalPrev)), None, None),
                   Some(Accumulator_from(LedgerPrev))).val],
      [cause |-> CauseMissingLocal,
       err |-> validate_with_ledger(
                   RevocationRegistryEntry_new(RevRegDef, Did123, Accumulator_from(Str123),
                       None, None, None),
                   Some(Accumulator_from(LedgerPrev))).val],
      [cause |-> CauseUnexpectedLocal,
       err |-> validate_with_ledger(
                   RevocationRegistryEntry_new(RevRegDef, Did123, Accumulator_from(Str123),
                       Some(Accumulator_from(LocalPrev)), None, None),
                   None).val],
      [cause |-> CauseIssuer,
       err |-> validate_with_status_list(
                   RevocationRegistryEntry_new(RevRegDef, Did123, Accumulator_from(Str123),
                       None, None, None),
                   Some(RevocationStatusList_new(RevRegDef, Did456, EmptyString, <<0, 0>>, 0))).val],
      [cause |-> CauseSerialization,
       err |-> from_string(TextCutShort).val],
      [cause |-> CauseEventDecode,
       err |-> RevRegEntryCreated_try_from(ContractEvent(
                   <<FixedBytes(RegistryIdBytes), Uint(7, TRUE), Uint(7, TRUE),
                     Bytes(as_bytes(TextCutShort))>>)).val]>>

\* The message format the code gives each cause.
FmtOfCause ==
    CASE Cause = CauseEmpty -> FmtIncorrect
      [] Cause = CauseMismatch -> FmtMismatch
      [] Cause = CauseMissingLocal -> FmtMissingLocal
      [] Cause = CauseUnexpectedLocal -> FmtUnexpectedLocal
      [] Cause = CauseIssuer -> FmtIssuer
      [] Cause = CauseSerialization ->
            IF op = "from_string(text)" THEN FmtFromJson ELSE FmtFromResponse

\* C13 as stated: the seven causes are seven error kinds: a failure and a
\* failure of another cause never have the same kind.
C13_KindTellsCause ==
    IsErr(Outcome) =>
        \A k \in 1..Len(ReferenceFailures) :
            ReferenceFailures[k].cause # Cause
                => ReferenceFailures[k].err.variant # Outcome.val.variant

\* C13 as amended: every failure of a validation and of a decoding of an
\* entry has the one kind InvalidRevocationRegistryEntry; each cause has its
\* own message format, so two failures of different causes among the five
\* validation causes and the serialization failure have the same kind and
\* different message formats; the event decoder's failure on the bytes at
\* position 3 is the error of the binary decoding itself.
C13_OneKindDistinctMessages ==
    /\ (Cause # NoCause /\ Cause # CauseEventDecode) =>
        /\ HasFmt(Outcome, FmtOfCause)
        /\ \A k \in 1..(Len(ReferenceFailures) - 1) :
              ReferenceFailures[k].cause # Cause
                  => /\ ReferenceFailures[k].err.variant = Outcome.val.variant
                     /\ ReferenceFailures[k].err.fmt # Outcome.val.fmt
    /\ (op = "RevRegEntryCreated::try_from" /\ HeadWellFormed /\ IsOk(Accessor(3))) =>
        decoded.tag = RevocationRegistryEntry_try_from(Accessor(3).val).tag
    /\ (op = "RevRegEntryCreated::try_from" /\ HeadWellFormed /\ IsOk(Accessor(3))
        /\ IsErr(decoded)) =>
        /\ decoded = RevocationRegistryEntry_try_from(Accessor(3).val)
        /\ HasFmt(decoded, FmtFromResponse)
    /\ (Cause = NoCause /\ ~IsPanic(Outcome)) => ~IsErr(Outcome)

C13_Witness ==
    /\ op = "validate_with_status_list"
    /\ Cause = CauseMissingLocal
    /\ HasFmt(result, FmtMissingLocal)
    /\ ReferenceFailures[5].err.variant = result.val.variant

\* The core entry an export record stands for, when its data fits the schema.
CoreEntryOf(rec) ==
    [rev_reg_def_id |-> rec.rev_reg_def_id,
     issuer_id |-> rec.issuer_id,
     rev_reg_entry_data |-> serde_json_from_value(rec.rev_reg_entry_data).val]

\* C14: the exported to_string only delegates: for every export record the
\* caller gets a result, Ok or Err; a record whose entry data fits the schema
\* gets the outcome of the core's to_string on the corresponding entry, and
\* one whose entry data does not fit gets an error result.
C14_BindingOnlyDelegates ==
    op = "revocation_registry_entry_to_string" =>
        /\ result.tag \in {"Ok", "Err"}
        /\ IF IsOk(serde_json_from_value(record.rev_reg_entry_data))
           THEN result = to_string(CoreEntryOf(record))
           ELSE IsErr(result)

IssuerDiffers == IsSome(status_list) /\ Unwrap(status_list).issuer_id # entry.issuer_id

\* C15: validate_with_status_list checks in a fixed order and returns the
\* first failure as it is: a failure of local validation whatever the status
\* list is; else the issuer mismatch, whatever the accumulators are; a failure
\* of the ledger-pair check only when local validation and the issuer check
\* passed, and then the one validate_with_ledger gives.
C15_FirstFailureInOrder ==
    op = "validate_with_status_list" =>
        /\ ~LocallyValid =>
              result = Err(InvalidRevocationRegistryEntry(FmtIncorrect, <<EmptyString>>))
        /\ (LocallyValid /\ IssuerDiffers) =>
              result = Err(InvalidRevocationRegistryEntry(
                           FmtIssuer, <<entry.issuer_id, Unwrap(status_list).issuer_id>>))
        /\ (IsErr(result) /\ result.val.fmt \in {FmtMismatch, FmtMissingLocal, FmtUnexpectedLocal})
              => (LocallyValid /\ ~IssuerDiffers)
        /\ (LocallyValid /\ ~IssuerDiffers) =>
              /\ result = validate_with_ledger(entry, DerivedLedgerValue)
              /\ PairCause(EntryPrev, DerivedLedgerValue) # NoCause => IsErr(result)

C15_Witness ==
    /\ op = "validate_with_status_list"
    /\ EntryCur = EmptyString
    /\ EntryPrevIs(LocalPrev)
    /\ IssuerDiffers
    /\ Unwrap(status_list).current_accumulator = LedgerPrev
    /\ HasFmt(result, FmtIncorrect)

\* The calls that agree with the state's call on the entry's issuer_id,
\* current_accumulator and prev_accumulator and on the status list's presence,
\* issuer_id and current_accumulator.
AgreeingEntries ==
    {RevocationRegistryEntry_new(r, entry.issuer_id,
                                 entry.rev_reg_entry_data.current_accumulator,
                                 entry.rev_reg_entry_data.prev_accumulator, issued, revoked) :
        r \in RevRegDefIds, issued \in IssuedLists, revoked \in RevokedLists}

AgreeingStatusLists ==
    IF IsNone(status_list) THEN {None}
    ELSE {Some(RevocationStatusList_new(r, Unwrap(status_list).issuer_id,
                                        Unwrap(status_list).current_accumulator, l, t)) :
            r \in RevRegDefIds, l \in RevocationLists, t \in Timestamps}

\* C16: the outcome of validate_with_status_list is the same for every call
\* that agrees on the entry's issuer_id, current_accumulator and
\* prev_accumulator and on the status list's presence, issuer_id and
\* current_accumulator; an entry that passes against a status list passes
\* against one of another registry definition id.
C16_OutcomeIgnoresOtherFields ==
    op = "validate_with_status_list" =>
        /\ \A e2 \in AgreeingEntries, sl2 \in AgreeingStatusLists :
              validate_with_status_list(e2, sl2) = result
        /\ (IsSome(status_list) /\ LocallyValid /\ ~IssuerDiffers
            /\ PairCause(EntryPrev, DerivedLedgerValue) = NoCause) => IsOk(result)

C16_Witness ==
    /\ op = "validate_with_status_list"
    /\ IsSome(status_list)
    /\ Unwrap(status_list).rev_reg_def_id # entry.rev_reg_def_id
    /\ Unwrap(status_list).timestamp # 0
    /\ entry.rev_reg_entry_data.issued # None
    /\ EntryPrevIs(Str123)
    /\ IsOk(result)

====
